---- MODULE Spec2Model ----
(***************************************************************************)
(* Model of scripts/ModelTraining/train_frame_importance.py: the module    *)
(* imports, main() and the four functions it calls, run as one process     *)
(* against a file system (the input CSV, the output path and its parent    *)
(* directories) and numpy's global random generator.                       *)
(*                                                                         *)
(* Units.  Feature values are held in thousandths (0.3 is 300), the        *)
(* importance score in millionths (a feature in thousandths times a        *)
(* weight in thousandths), so the weighted sum of create_sample_data is    *)
(* exact integer arithmetic.  A test fraction is a number of twentieths:   *)
(* for these fractions and the row counts of the model the double          *)
(* product test_size * n_samples has the same ceiling as the exact one.    *)
(***************************************************************************)
EXTENDS Integers, Sequences, FiniteSets, TLC

(* ------------------------------ bounds -------------------------------- *)

\* Largest number of rows of an input CSV.
MaxRows == 7
\* Number of components of the output path (the last one is the artifact).
PathLen == 3
\* Resolution of one draw of the random generator: a draw is u / RngRange.
RngRange == 16
\* Resolution of a feature importance: an importance is w / Grain.
Grain == 2

(* ------------------------- program constants -------------------------- *)

n_samples == 1000
seed == 42
min_samples_split == 5
min_samples_leaf == 2

feature_columns ==
    <<"VisualComplexity", "ColorVariance", "EdgeDensity",
      "Brightness", "Contrast", "AspectRatio">>

target_column == "ImportanceScore"

required_packages == {"sklearn", "pandas", "numpy", "joblib"}

\* The stages of main, in the order main calls them.
StageOrder == <<"load", "split", "fit", "evaluate", "print", "save">>

(* ------------------------------ helpers -------------------------------- *)

Range(f) == {f[i] : i \in DOMAIN f}

Abs(x) == IF x < 0 THEN -x ELSE x

IsPrefix(s, t) == Len(s) <= Len(t) /\ SubSeq(t, 1, Len(s)) = s

RECURSIVE SumOver(_, _)
SumOver(f, S) ==
    IF S = {} THEN 0
    ELSE LET c == CHOOSE x \in S : TRUE IN f[c] + SumOver(f, S \ {c})

\* A column of n equal cells (a scalar broadcast by pandas).
Broadcast(v, n) == [i \in 1..n |-> v]

IsConstant(col) ==
    \/ DOMAIN col = {}
    \/ LET first == col[CHOOSE j \in DOMAIN col : TRUE]
       IN \A i \in DOMAIN col : col[i] = first

\* Some value fills at least k cells of the column.
HasValueRepeated(col, k) ==
    \E v \in Range(col) : Cardinality({i \in DOMAIN col : col[i] = v}) >= k

\* Ceiling of a / b, for a >= 0 and b > 0.
Ceil(a, b) == (a + b - 1) \div b

\* Python's round(a / b), for a >= 0 and b > 0: a half goes to the even neighbour.
PyRound(a, b) ==
    LET q == a \div b
        r == a % b
    IN IF 2 * r < b THEN q
       ELSE IF 2 * r > b THEN q + 1
       ELSE IF q % 2 = 0 THEN q ELSE q + 1

(* ------------------- numpy's global random generator ------------------- *)

\* The generator's state: the seed it was last set from and the number of
\* values drawn since.  The bit stream is a fixed function of both.
SeededState(s) == [key |-> s, pos |-> 0]

\* The states the generator may be in when the script starts (numpy seeds it
\* from the operating system when it is imported).
EntropySeeds == {7, 13}

\* The k-th value (k = 0, 1, ...) the generator yields from state rng.
Draw(rng, k) ==
    LET i == rng.pos + k
    IN ((rng.key * 31 + 17) * (i + 1) + (i \div 7) * 13 + ((i * i) % 23)) % RngRange

Advance(rng, n) == [rng EXCEPT !.pos = @ + n]

\* np.random.uniform(lo, hi, n): n values of [lo, hi), in thousandths.
uniform(rng, lo, hi, n) ==
    [i \in 1..n |-> lo + ((hi - lo) * Draw(rng, i - 1)) \div RngRange]

\* np.random.choice([True, False], n): index 0 is True.
choice_bool(rng, n) == [i \in 1..n |-> Draw(rng, i - 1) % 2 = 0]

\* np.random.normal(0, sigma, n): unbounded in numpy, here sigma times a
\* deviate of -RngRange/2 .. RngRange/2.
normal(rng, sigma, n) ==
    [i \in 1..n |-> sigma * (Draw(rng, i - 1) - RngRange \div 2)]

(* -------------------------- create_sample_data ------------------------- *)

clip_no_lower(x, lo, hi) == IF x > hi THEN hi ELSE x

\* np.clip(x, lo, hi)
clip(x, lo, hi) == IF x < lo THEN lo ELSE IF x > hi THEN hi ELSE x

\* Lines 62-95 of create_sample_data, run with the generator in state r0: the
\* frame built and the state the generator is left in.
generate_rows(r0) ==
    LET n   == n_samples
        Timestamp        == uniform(r0, 0, 300000, n)
        r1  == Advance(r0, n)
        IsKeyFrame       == choice_bool(r1, n)
        r2  == Advance(r1, n)
        VisualComplexity == uniform(r2, 300, 900, n)
        r3  == Advance(r2, n)
        ColorVariance    == uniform(r3, 200, 800, n)
        r4  == Advance(r3, n)
        EdgeDensity      == uniform(r4, 100, 900, n)
        r5  == Advance(r4, n)
        Brightness       == uniform(r5, 200, 900, n)
        r6  == Advance(r5, n)
        Contrast         == uniform(r6, 300, 800, n)
        r7  == Advance(r6, n)
        noise            == normal(r7, 50, n)
        r8  == Advance(r7, n)
        importance == [i \in 1..n |->
              VisualComplexity[i] * 300
            + EdgeDensity[i] * 250
            + Contrast[i] * 200
            + ColorVariance[i] * 150
            + Abs(Brightness[i] - 500) * 100
            + (IF IsKeyFrame[i] THEN 150000 ELSE 0)
            + noise[i] * 1000]
    IN [rng |-> r8,
        df  |-> [n |-> n,
                 columns |-> <<"FrameIndex", "Timestamp", "IsKeyFrame",
                               "VisualComplexity", "ColorVariance", "EdgeDensity",
                               "Brightness", "Contrast", "AspectRatio",
                               "ImportanceScore">>,
                 object_columns |-> {},
                 data |-> [FrameIndex       |-> [i \in 1..n |-> i - 1],
                           Timestamp        |-> Timestamp,
                           IsKeyFrame       |-> [i \in 1..n |-> IF IsKeyFrame[i] THEN 1 ELSE 0],
                           VisualComplexity |-> VisualComplexity,
                           ColorVariance    |-> ColorVariance,
                           EdgeDensity      |-> EdgeDensity,
                           Brightness       |-> Brightness,
                           Contrast         |-> Contrast,
                           AspectRatio      |-> Broadcast(1778, n),
                           ImportanceScore  |->
                               [i \in 1..n |-> clip(importance[i], 0, 1000000)]]]]

\* create_sample_data() without its first statement, np.random.seed(42).
create_sample_data_noseed(np_random0) == generate_rows(np_random0)

\* create_sample_data() called with the generator in state np_random0.
create_sample_data(np_random0) == generate_rows(SeededState(seed))

(* ------------------------------ input file ----------------------------- *)

extra_columns == <<"FrameIndex", "Timestamp", "IsKeyFrame">>

\* What pd.read_csv(data_path) can meet at the path, other than a CSV that parses.
\*   missing    no such file or directory (ENOENT)
\*   notadir    a parent component of the path is a regular file (ENOTDIR)
\*   isdir      the path is a directory
\*   denied     the file cannot be read
\*   empty      the file holds no columns
\*   malformed  the parser rejects the file
UnparsedKinds == {"missing", "notadir", "isdir", "denied", "empty", "malformed"}

CsvFile(kind, n, defect, extra, y_const, x_const) ==
    [kind |-> kind, n |-> n, defect |-> defect, extra |-> extra,
     y_const |-> y_const, x_const |-> x_const]

\* What can be wrong with a CSV that parses: a feature column is absent, the
\* target column is absent, or a feature column holds text.
Defects == {"none", "no_feature", "no_target", "text"}

\* The input files of the model: every unparsed kind, and the CSV files of
\* 0 .. MaxRows rows with or without the extra columns, with or without a
\* defect, with a constant or varied target, with constant or varied features
\* (AspectRatio is constant in all of them).
DataFiles ==
    {CsvFile(k, 0, "none", FALSE, FALSE, FALSE) : k \in UnparsedKinds}
    \cup {CsvFile("csv", n, d, e, yc, xc) :
              n \in 0..MaxRows, d \in Defects,
              e \in BOOLEAN, yc \in BOOLEAN, xc \in BOOLEAN}

ColumnIndex(c) == CHOOSE i \in 1..Len(feature_columns) : feature_columns[i] = c

\* The frame pandas parses from a CSV file of the model.
CsvFrame(f) ==
    LET absent == CASE f.defect = "no_feature" -> "Contrast"
                    [] f.defect = "no_target"  -> target_column
                    [] OTHER                   -> "none"
        text   == IF f.defect = "text" THEN {"EdgeDensity"} ELSE {}
        names  == (IF f.extra THEN extra_columns ELSE <<>>)
                  \o SelectSeq(feature_columns, LAMBDA c : c # absent)
                  \o (IF absent = target_column THEN <<>> ELSE <<target_column>>)
        cell(c, i) ==
            IF c = target_column
            THEN (IF f.y_const THEN 500000 ELSE i * 100000)
            ELSE IF c = "AspectRatio" THEN 1778
            ELSE IF c \in Range(extra_columns) THEN i - 1
            ELSE IF f.x_const THEN 500
            ELSE 100 * i + ColumnIndex(c)
    IN [n |-> f.n,
        columns |-> names,
        object_columns |-> text,
        data |-> [c \in Range(names) |-> [i \in 1..f.n |-> cell(c, i)]]]

NoFrame == [n |-> 0, columns |-> <<>>, object_columns |-> {}, data |-> <<>>]

\* pd.read_csv(data_path): the exception raised ("" for none) and the frame.
read_csv(f) ==
    CASE f.kind = "missing"   -> [error |-> "FileNotFoundError", df |-> NoFrame]
      [] f.kind = "notadir"   -> [error |-> "NotADirectoryError", df |-> NoFrame]
      [] f.kind = "isdir"     -> [error |-> "IsADirectoryError", df |-> NoFrame]
      [] f.kind = "denied"    -> [error |-> "PermissionError", df |-> NoFrame]
      [] f.kind = "empty"     -> [error |-> "EmptyDataError", df |-> NoFrame]
      [] f.kind = "malformed" -> [error |-> "ParserError", df |-> NoFrame]
      [] OTHER                -> [error |-> "", df |-> CsvFrame(f)]

(* -------------------------- load_training_data ------------------------- *)

\* df[cols]: KeyError when a column is not in the frame.
select_columns(df, cols) ==
    IF Range(cols) \subseteq Range(df.columns)
    THEN [error |-> "",
          df |-> [n |-> df.n, columns |-> cols,
                  object_columns |-> df.object_columns \cap Range(cols),
                  data |-> [c \in Range(cols) |-> df.data[c]]]]
    ELSE [error |-> "KeyError", df |-> NoFrame]

Loaded(error, out, X, y, rng) ==
    [error |-> error, stdout |-> out, X |-> X, y |-> y, rng |-> rng]

\* The rest of load_training_data once df is bound (lines 47-56).
select_features(df, out, rng) ==
    LET X == select_columns(df, feature_columns)
        y == select_columns(df, <<target_column>>)
    IN IF X.error # "" THEN Loaded(X.error, out, NoFrame, NoFrame, rng)
       ELSE IF y.error # "" THEN Loaded(y.error, out, NoFrame, NoFrame, rng)
       ELSE Loaded("", out, X.df, y.df, rng)

\* load_training_data without the try/except around read_csv.
load_training_data_no_fallback(f, np_random0) ==
    LET read == read_csv(f)
    IN IF read.error # ""
       THEN Loaded(read.error, <<"loading">>, NoFrame, NoFrame, np_random0)
       ELSE select_features(read.df, <<"loading">>, np_random0)

\* load_training_data with "except Exception" in place of "except FileNotFoundError".
load_training_data_catch_all(f, np_random0) ==
    LET read == read_csv(f)
    IN IF read.error # ""
       THEN LET made == create_sample_data(np_random0)
            IN select_features(made.df, <<"loading", "not_found", "creating_sample">>,
                               made.rng)
       ELSE select_features(read.df, <<"loading">>, np_random0)

\* load_training_data without the column selection of line 53 (X is the
\* whole frame less the target).
load_training_data_all_columns(f, np_random0) ==
    LET read == read_csv(f)
        keep(df) == SelectSeq(df.columns, LAMBDA c : c # target_column)
        rest(df, out, rng) ==
            LET y == select_columns(df, <<target_column>>)
            IN IF ~(Range(feature_columns) \subseteq Range(df.columns))
               THEN Loaded("KeyError", out, NoFrame, NoFrame, rng)
               ELSE IF y.error # "" THEN Loaded(y.error, out, NoFrame, NoFrame, rng)
               ELSE Loaded("", out, select_columns(df, keep(df)).df, y.df, rng)
    IN IF read.error = "FileNotFoundError"
       THEN LET made == create_sample_data(np_random0)
            IN rest(made.df, <<"loading", "not_found", "creating_sample">>, made.rng)
       ELSE IF read.error # ""
       THEN Loaded(read.error, <<"loading">>, NoFrame, NoFrame, np_random0)
       ELSE rest(read.df, <<"loading">>, np_random0)

\* load_training_data(data_path) called with the generator in state
\* np_random0: the exception it raises ("" for none), the lines it prints,
\* the features X and target y it returns, and the generator's state after.
load_training_data(f, np_random0) ==
    LET read == read_csv(f)
    IN IF read.error = "FileNotFoundError"
       THEN LET made == create_sample_data(np_random0)
            IN select_features(made.df, <<"loading", "not_found", "creating_sample">>,
                               made.rng)
       ELSE IF read.error # ""
       THEN Loaded(read.error, <<"loading">>, NoFrame, NoFrame, np_random0)
       ELSE select_features(read.df, <<"loading">>, np_random0)

(* ------------------------------ the split ------------------------------ *)

\* The test fractions of the model, in twentieths: --test-size -0.25, 0, 0.2
\* (the default), 0.25, 0.5, 0.95, 1.0.
TestSizes == {-5, 0, 4, 5, 10, 19, 20}

default_test_size == 4

\* The part of a frame the later stages read: its size, its columns, those
\* holding text, and those constant over its rows.
Subset(frame, n, constant) ==
    [n |-> n, columns |-> frame.columns,
     object_columns |-> frame.object_columns, constant |-> constant]

NoSubset == [n |-> 0, columns |-> <<>>, object_columns |-> {}, constant |-> {}]

NoSplit == [error |-> "", X_train |-> NoSubset, X_test |-> NoSubset,
            y_train |-> NoSubset, y_test |-> NoSubset]

\* sklearn's _validate_shuffle_split with a test size rounded to the nearest
\* row in place of the ceiling.
split_sizes_rounded(n, t) ==
    IF t <= 0 \/ t >= 20 THEN [error |-> "ValueError", n_train |-> 0, n_test |-> 0]
    ELSE LET n_test == PyRound(t * n, 20)
             n_train == n - n_test
         IN IF n_train = 0
            THEN [error |-> "ValueError", n_train |-> 0, n_test |-> 0]
            ELSE [error |-> "", n_train |-> n_train, n_test |-> n_test]

\* The sizes train_test_split gives n rows at a float test_size of t
\* twentieths and train_size=None: test_size must lie strictly between 0 and
\* 1, n_test = ceil(test_size * n), n_train = n - n_test must not be 0.
split_sizes(n, t) ==
    IF t <= 0 \/ t >= 20 THEN [error |-> "ValueError", n_train |-> 0, n_test |-> 0]
    ELSE LET n_test == Ceil(t * n, 20)
             n_train == n - n_test
         IN IF n_train = 0
            THEN [error |-> "ValueError", n_train |-> 0, n_test |-> 0]
            ELSE [error |-> "", n_train |-> n_train, n_test |-> n_test]

\* The sets of columns that may be constant over a k-row subset of the frame
\* whose rows the seeded shuffle picks: a column constant over the whole
\* frame is, one with no value repeated k times is not, any other may be.
ConstantOutcomes(frame, k) ==
    LET cols == Range(frame.columns)
        must == {c \in cols : k <= 1 \/ IsConstant(frame.data[c])}
        may  == {c \in cols \ must : HasValueRepeated(frame.data[c], k)}
    IN {must \cup S : S \in SUBSET may}

\* train_test_split(X, y, test_size=t, random_state=42): the outcomes it can
\* have, each the exception raised ("" for none) and the four subsets.
train_test_split(X, y, t) ==
    LET sz == split_sizes(X.n, t)
    IN IF sz.error # "" THEN {[NoSplit EXCEPT !.error = sz.error]}
       ELSE {[error |-> "",
              X_train |-> Subset(X, sz.n_train, cx),
              X_test  |-> Subset(X, sz.n_test, {}),
              y_train |-> Subset(y, sz.n_train, cy),
              y_test  |-> Subset(y, sz.n_test, {})] :
                 cx \in ConstantOutcomes(X, sz.n_train),
                 cy \in ConstantOutcomes(y, sz.n_train)}

(* ------------------------------ train_model ---------------------------- *)

NoModel == [fitted |-> FALSE, feature_names |-> <<>>, feature_importances |-> <<>>]

\* A tree of the forest can split its root: the training set has the rows
\* min_samples_split and min_samples_leaf ask for, the target is not
\* constant (the root's impurity is not 0) and some feature is not constant.
\* With 100 bootstrap replicates the forest is taken to hold such a tree
\* whenever one can exist.
CanSplit(X_train, y_train) ==
    /\ X_train.n >= min_samples_split
    /\ X_train.n >= 2 * min_samples_leaf
    /\ y_train.constant = {}
    /\ Range(X_train.columns) \ X_train.constant # {}

\* model.feature_importances_ after the fit: all zero when no tree has
\* split; else non-negative, zero on the constant features (no tree splits
\* on them), and normalised to sum to 1 (Grain parts of 1 / Grain).
ImportanceOutcomes(X_train, y_train) ==
    LET cols == Range(X_train.columns)
    IN IF CanSplit(X_train, y_train)
       THEN {w \in [cols -> 0..Grain] :
                /\ \A c \in X_train.constant : w[c] = 0
                /\ SumOver(w, cols) = Grain}
       ELSE {[c \in cols |-> 0]}

\* model.fit(X_train, y_train) of train_model: the outcomes it can have.  A
\* column holding text cannot be converted to float.
fit(X_train, y_train) ==
    IF X_train.object_columns # {} \/ y_train.object_columns # {}
    THEN {[error |-> "ValueError", model |-> NoModel]}
    ELSE {[error |-> "",
           model |-> [fitted |-> TRUE, feature_names |-> X_train.columns,
                      feature_importances |-> w]] :
              w \in ImportanceOutcomes(X_train, y_train)}

\* sorted(zip(feature_names, importances), key=lambda x: x[1], reverse=True):
\* descending by importance, equal importances in their original order.
RECURSIVE sorted_importances(_, _)
sorted_importances(names, w) ==
    IF names = <<>> THEN <<>>
    ELSE LET k == CHOOSE i \in 1..Len(names) :
                      /\ \A j \in 1..Len(names) : w[names[j]] <= w[names[i]]
                      /\ \A j \in 1..(i - 1) : w[names[j]] < w[names[i]]
             rest == [j \in 1..(Len(names) - 1) |->
                         IF j < k THEN names[j] ELSE names[j + 1]]
         IN <<[name |-> names[k], importance |-> w[names[k]]]>>
            \o sorted_importances(rest, w)

(* ------------------------------ save_model ----------------------------- *)

\* The output path is components 1 .. PathLen below the working directory;
\* component PathLen is the artifact, the others its parent directories.
NodeKinds == {"absent", "dir", "file"}

\* A component exists only inside a directory.
ConsistentTree(tree) ==
    \A k \in 2..PathLen : tree[k] # "absent" => tree[k - 1] = "dir"

\* Path.mkdir(parents=True, exist_ok=True) on component k (0 is the working
\* directory): os.mkdir, on FileNotFoundError the parent first, any other
\* OSError swallowed only if the path is a directory already.
RECURSIVE mkdir(_, _)
mkdir(tree, k) ==
    IF k = 0 \/ tree[k] = "dir" THEN [error |-> "", tree |-> tree]
    ELSE IF tree[k] = "file" THEN [error |-> "FileExistsError", tree |-> tree]
    ELSE IF k > 1 /\ tree[k - 1] = "file"
    THEN [error |-> "NotADirectoryError", tree |-> tree]
    ELSE IF k > 1 /\ tree[k - 1] = "absent"
    THEN LET up == mkdir(tree, k - 1)
         IN IF up.error # "" THEN up
            ELSE [error |-> "", tree |-> [up.tree EXCEPT ![k] = "dir"]]
    ELSE [error |-> "", tree |-> [tree EXCEPT ![k] = "dir"]]

Saved(error, tree, content, out) ==
    [error |-> error, tree |-> tree, artifact |-> content, stdout |-> out]

\* joblib.dump(model, output_path): opens the path for writing and writes
\* the pickled model.
dump(tree, content) ==
    IF tree[PathLen] = "dir" THEN Saved("IsADirectoryError", tree, content, <<>>)
    ELSE Saved("", [tree EXCEPT ![PathLen] = "file"], "model", <<>>)

\* save_model with the write wrapped in "except OSError: pass".
save_model_swallow(tree, content) ==
    LET made == mkdir(tree, PathLen - 1)
        wrote == dump(made.tree, content)
    IN IF made.error # "" \/ wrote.error # ""
       THEN Saved("", made.tree, content, <<"saved">>)
       ELSE Saved("", wrote.tree, wrote.artifact, <<"saved">>)

\* save_model(model, output_path) on the tree and the artifact's content.
save_model(tree, content) ==
    LET made == mkdir(tree, PathLen - 1)
    IN IF made.error # "" THEN Saved(made.error, made.tree, content, <<>>)
       ELSE LET wrote == dump(made.tree, content)
            IN IF wrote.error # "" THEN wrote
               ELSE Saved("", wrote.tree, wrote.artifact, <<"saved">>)

(* ------------------------------- imports ------------------------------- *)

Imported(error, out, code) == [error |-> error, stdout |-> out, exit_code |-> code]

\* The imports with an except block that prints and does not call sys.exit.
module_imports_no_exit(packages) ==
    IF ~({"pandas", "numpy"} \subseteq packages)
    THEN Imported("ImportError", <<>>, 1)
    ELSE IF ~({"sklearn", "joblib"} \subseteq packages)
    THEN Imported("", <<"packages_missing", "install_hint">>, 0)
    ELSE Imported("", <<>>, 0)

\* Lines 19-33 with the given packages installed: pandas and numpy are imported
\* outside the try block (an ImportError there is uncaught), scikit-learn and
\* joblib inside it (the except prints two lines and calls sys.exit(1)).
module_imports(packages) ==
    IF ~({"pandas", "numpy"} \subseteq packages)
    THEN Imported("ImportError", <<>>, 1)
    ELSE IF ~({"sklearn", "joblib"} \subseteq packages)
    THEN Imported("", <<"packages_missing", "install_hint">>, 1)
    ELSE Imported("", <<>>, 0)

(* --------------------------------- main -------------------------------- *)

\* main calling train_model again after the report.
next_stage_refit(stage) ==
    CASE stage = "load"     -> "split"
      [] stage = "split"    -> "fit"
      [] stage = "fit"      -> "evaluate"
      [] stage = "evaluate" -> "print"
      [] stage = "print"    -> "fit"
      [] stage = "save"     -> "finish"

\* The statement main (and train_model inside it) runs after a stage returns.
next_stage(stage) ==
    CASE stage = "load"     -> "split"
      [] stage = "split"    -> "fit"
      [] stage = "fit"      -> "evaluate"
      [] stage = "evaluate" -> "print"
      [] stage = "print"    -> "save"
      [] stage = "save"     -> "finish"

VARIABLES
    pc,          \* the statement the process is at; "exited" once it has ended
    installed,   \* the third-party packages that can be imported
    tree,        \* the kind of each component of the output path
    artifact,    \* the content of the file at the output path ("none": no file)
    data_file,   \* what pd.read_csv found at the data path
    test_size,   \* args.test_size, in twentieths
    np_random,   \* the state of numpy's global generator
    stdout,      \* the lines printed, one tag per line
    started,     \* the stages entered so far, in order
    error,       \* the uncaught exception the process died of ("" for none)
    exit_code,   \* the exit status (-1 while the process runs)
    X, y,        \* the frames load_training_data returned
    parts,       \* what train_test_split returned
    model,       \* the fitted model
    metrics,     \* the rows the four metrics were computed over
    report,      \* the (name, importance) pairs printed, in the order printed
    tree0,       \* history: tree when the process started
    artifact0    \* history: artifact when the process started

vars == <<pc, installed, tree, artifact, data_file, test_size, np_random,
          stdout, started, error, exit_code, X, y, parts, model, metrics, report,
          tree0, artifact0>>

env == <<installed, tree0, artifact0>>
loaded == <<X, y>>
trained == <<model, metrics, report>>
disk == <<tree, artifact>>

NoMetrics == [n_train |-> 0, n_test |-> 0]

Unread == CsvFile("unread", 0, "none", FALSE, FALSE, FALSE)

Init ==
    /\ pc = "import"
    /\ installed \in SUBSET required_packages
    /\ tree \in {t \in [1..PathLen -> NodeKinds] : ConsistentTree(t)}
    /\ artifact \in (IF tree[PathLen] = "file" THEN {"empty", "stale"} ELSE {"none"})
    /\ tree0 = tree
    /\ artifact0 = artifact
    /\ data_file = Unread
    /\ test_size = default_test_size
    /\ np_random = SeededState(0)
    /\ stdout = <<>>
    /\ started = <<>>
    /\ error = ""
    /\ exit_code = -1
    /\ X = NoFrame
    /\ y = NoFrame
    /\ parts = NoSplit
    /\ model = NoModel
    /\ metrics = NoMetrics
    /\ report = <<>>

\* The process ends: an uncaught exception or sys.exit(code).
Exit(exc, code) ==
    /\ pc' = "exited"
    /\ error' = exc
    /\ exit_code' = code

\* The process goes on to the statement `next`.
Goto(next) ==
    /\ pc' = next
    /\ UNCHANGED <<error, exit_code>>

\* Lines 19-33.  numpy seeds its global generator when it is imported.
Import ==
    /\ pc = "import"
    /\ LET r == module_imports(installed)
       IN /\ stdout' = stdout \o r.stdout
          /\ IF r.exit_code # 0
             THEN Exit(r.error, r.exit_code) /\ UNCHANGED np_random
             ELSE /\ Goto("args")
                  /\ np_random' \in {SeededState(s) : s \in EntropySeeds}
    /\ UNCHANGED <<env, disk, data_file, test_size, started, loaded, parts, trained>>

\* Lines 148-174: parse_args ends the process with status 2 on a command
\* line it rejects (the usage goes to stderr) and with status 0 after
\* printing the help on -h; else the banner is printed.
ParseArgs ==
    /\ pc = "args"
    /\ \/ /\ Exit("", 2)
          /\ UNCHANGED <<test_size, stdout>>
       \/ /\ Exit("", 0)
          /\ stdout' = stdout \o <<"help">>
          /\ UNCHANGED test_size
       \/ /\ test_size' \in TestSizes
          /\ stdout' = stdout \o <<"banner">>
          /\ Goto("load")
    /\ UNCHANGED <<env, disk, data_file, np_random, started, loaded, parts, trained>>

\* Lines 176-180.  The file at the data path is first looked at here.
Load ==
    /\ pc = "load"
    /\ started' = Append(started, "load")
    /\ data_file' \in DataFiles
    /\ LET r == load_training_data(data_file', np_random)
       IN /\ np_random' = r.rng
          /\ IF r.error # ""
             THEN /\ Exit(r.error, 1)
                  /\ stdout' = stdout \o r.stdout
                  /\ UNCHANGED loaded
             ELSE /\ Goto(next_stage("load"))
                  /\ stdout' = stdout \o r.stdout \o <<"dataset_size", "features">>
                  /\ X' = r.X
                  /\ y' = r.y
    /\ UNCHANGED <<env, disk, test_size, parts, trained>>

\* Lines 182-188 with the output directory made before the split.
Split_mkdir_first ==
    /\ pc = "split"
    /\ started' = Append(started, "split")
    /\ tree' = mkdir(tree, PathLen - 1).tree
    /\ \E r \in train_test_split(X, y, test_size) :
          IF r.error # ""
          THEN Exit(r.error, 1) /\ UNCHANGED <<parts, stdout>>
          ELSE /\ Goto(next_stage("split"))
               /\ parts' = r
               /\ stdout' = stdout \o <<"train_count", "test_count">>
    /\ UNCHANGED <<env, artifact, data_file, test_size, np_random, loaded, trained>>

\* Lines 182-188.
Split ==
    /\ pc = "split"
    /\ started' = Append(started, "split")
    /\ \E r \in train_test_split(X, y, test_size) :
          IF r.error # ""
          THEN Exit(r.error, 1) /\ UNCHANGED <<parts, stdout>>
          ELSE /\ Goto(next_stage("split"))
               /\ parts' = r
               /\ stdout' = stdout \o <<"train_count", "test_count">>
    /\ UNCHANGED <<env, disk, data_file, test_size, np_random, loaded, trained>>

\* Lines 100-111 of train_model.
Fit ==
    /\ pc = "fit"
    /\ started' = Append(started, "fit")
    /\ stdout' = stdout \o <<"training">>
    /\ \E r \in fit(parts.X_train, parts.y_train) :
          IF r.error # ""
          THEN Exit(r.error, 1) /\ UNCHANGED model
          ELSE Goto(next_stage("fit")) /\ model' = r.model
    /\ UNCHANGED <<env, disk, data_file, test_size, np_random, loaded, parts,
                   metrics, report>>

\* Lines 113-120 of train_model: the predictions and the four metrics.
Evaluate ==
    /\ pc = "evaluate"
    /\ started' = Append(started, "evaluate")
    /\ metrics' = [n_train |-> parts.y_train.n, n_test |-> parts.y_test.n]
    /\ Goto(next_stage("evaluate"))
    /\ UNCHANGED <<env, disk, data_file, test_size, np_random, stdout, loaded, parts,
                   model, report>>

\* Lines 122-137 of train_model: the metrics, then one line per feature.
PrintReport ==
    /\ pc = "print"
    /\ started' = Append(started, "print")
    /\ report' = sorted_importances(model.feature_names, model.feature_importances)
    /\ stdout' = stdout
                 \o <<"results", "train_mse", "test_mse", "train_r2", "test_r2",
                      "importances">>
                 \o [i \in 1..Len(report') |-> report'[i].name]
    /\ Goto(next_stage("print"))
    /\ UNCHANGED <<env, disk, data_file, test_size, np_random, loaded, parts, model,
                   metrics>>

\* Line 194.
Save ==
    /\ pc = "save"
    /\ started' = Append(started, "save")
    /\ LET r == save_model(tree, artifact)
       IN /\ tree' = r.tree
          /\ artifact' = r.artifact
          /\ stdout' = stdout \o r.stdout
          /\ IF r.error # "" THEN Exit(r.error, 1) ELSE Goto(next_stage("save"))
    /\ UNCHANGED <<env, data_file, test_size, np_random, loaded, parts, trained>>

\* Lines 196-198, and the return from main.
Finish ==
    /\ pc = "finish"
    /\ stdout' = stdout \o <<"complete">>
    /\ Exit("", 0)
    /\ UNCHANGED <<env, disk, data_file, test_size, np_random, started, loaded, parts,
                   trained>>

Next ==
    \/ Import
    \/ ParseArgs
    \/ Load
    \/ Split
    \/ Fit
    \/ Evaluate
    \/ PrintReport
    \/ Save
    \/ Finish

Spec == Init /\ [][Next]_vars

(* ------------------------------- claims -------------------------------- *)

Exited == pc = "exited"

Printed(line) == \E i \in DOMAIN stdout : stdout[i] = line

Entered(stage) == \E i \in DOMAIN started : started[i] = stage

\* main printed "Training complete!" and returned.
Completed == Exited /\ exit_code = 0 /\ Printed("complete")

\* The synthetic frame was substituted for the input file.
Substituted == Printed("creating_sample")

SplitDone == parts.X_train.n > 0

ReportTotal == SumOver([i \in DOMAIN report |-> report[i].importance], DOMAIN report)

\* C1 as stated: whenever there is no file at the input path, the loader
\* does not raise, the 1000-row synthetic set is substituted and the run goes
\* through split, fit and save to successful completion.
C1_Original ==
    (data_file.kind = "missing" /\ Exited) =>
        /\ Substituted
        /\ X.n = n_samples
        /\ Completed

\* C1 amended: when read_csv fails with FileNotFoundError (no such file or
\* directory), load_training_data does not raise: it substitutes the
\* 1000-row synthetic set and returns its six feature columns and target,
\* and the run goes on to the split; the run then completes successfully
\* exactly when the splitter accepts the test fraction for 1000 rows and
\* save_model can write the output path.
C1_MissingFileFallsBack ==
    data_file.kind = "missing" =>
        /\ Substituted
        /\ X.n = n_samples /\ y.n = n_samples
        /\ X.columns = feature_columns /\ y.columns = <<target_column>>
        /\ ~(Exited /\ started = <<"load">>)
        /\ Exited =>
              (Completed <=>
                  /\ split_sizes(n_samples, test_size).error = ""
                  /\ save_model(tree0, artifact0).error = "")

C1_Witness ==
    /\ data_file.kind = "missing"
    /\ Substituted
    /\ Completed
    /\ started = StageOrder

\* C2: after a run that reaches "Training complete!", the artifact file
\* exists at the output path and holds the serialized model (it is not
\* empty), and every parent directory of the path exists, whether it was
\* there before the run or not.
C2_ArtifactWritten ==
    Completed =>
        /\ tree[PathLen] = "file"
        /\ artifact = "model"
        /\ \A k \in 1..(PathLen - 1) : tree[k] = "dir"

C2_Witness ==
    /\ Completed
    /\ \A k \in 1..PathLen : tree0[k] = "absent"
    /\ tree[PathLen] = "file"

\* The load fails other than by FileNotFoundError: read_csv raises another
\* exception, or the frame lacks a feature column or the target column.
OtherLoadFailure ==
    \/ data_file.kind \in UnparsedKinds \ {"missing"}
    \/ data_file.kind = "csv" /\ data_file.defect \in {"no_feature", "no_target"}

\* C3: a load failure other than a missing file is not recovered: no
\* synthetic data is substituted, the exception leaves load_training_data
\* uncaught, and the process ends with a non-zero status having entered no
\* stage after the load.
C3_OtherLoadFailuresPropagate ==
    OtherLoadFailure =>
        /\ Exited
        /\ exit_code # 0
        /\ error # ""
        /\ started = <<"load">>
        /\ ~Substituted
        /\ X = NoFrame /\ y = NoFrame
        /\ parts = NoSplit /\ model = NoModel
        /\ tree = tree0 /\ artifact = artifact0

C3_Witness ==
    /\ data_file.kind = "csv"
    /\ data_file.defect = "no_target"
    /\ Exited
    /\ error = "KeyError"

C5_Original ==
    SplitDone =>
        /\ parts.X_test.n = PyRound(test_size * X.n, 20)
        /\ parts.X_train.n = X.n - PyRound(test_size * X.n, 20)

\* C5 amended: for every dataset of n rows and every test fraction t the
\* splitter accepts, the test set has ceil(t * n) rows and the training set
\* the remaining n - ceil(t * n), at least one each (so the sizes sum to n;
\* 1000 rows with t = 0.2 gives 200 test and 800 train).
C5_SplitSizes ==
    SplitDone =>
        /\ parts.X_test.n = Ceil(test_size * X.n, 20)
        /\ parts.X_train.n = X.n - Ceil(test_size * X.n, 20)
        /\ parts.X_test.n + parts.X_train.n = X.n
        /\ parts.X_test.n >= 1 /\ parts.X_train.n >= 1
        /\ parts.y_test.n = parts.X_test.n /\ parts.y_train.n = parts.X_train.n
        /\ (X.n = 1000 /\ test_size = 4) =>
              (parts.X_test.n = 200 /\ parts.X_train.n = 800)

C5_Witness ==
    /\ SplitDone
    /\ Ceil(test_size * X.n, 20) # PyRound(test_size * X.n, 20)
    /\ parts.X_test.n = Ceil(test_size * X.n, 20)

\* C6 as stated: after training on any dataset that reaches the fit, the
\* report lists exactly six importances, one per feature column, and they
\* sum to 1.
C6_Original ==
    Entered("print") =>
        /\ Len(report) = 6
        /\ {report[i].name : i \in DOMAIN report} = Range(feature_columns)
        /\ ReportTotal = Grain

\* C6 amended: after training on any dataset that reaches the fit, the
\* report lists exactly six importances, one per feature column, none
\* negative, in descending order; they sum to 1 when some tree of the
\* forest has split and are all 0 otherwise, which is the case whenever the
\* target is constant over the training rows or there are fewer than
\* min_samples_split training rows.
C6_SixImportances ==
    Entered("print") =>
        /\ Len(report) = 6
        /\ {report[i].name : i \in DOMAIN report} = Range(feature_columns)
        /\ \A i \in DOMAIN report : report[i].importance >= 0
        /\ \A i \in 1..(Len(report) - 1) :
              report[i].importance >= report[i + 1].importance
        /\ ReportTotal \in {0, Grain}
        /\ (parts.y_train.constant # {} \/ parts.X_train.n < min_samples_split) =>
              ReportTotal = 0

C6_Witness ==
    /\ Entered("print")
    /\ data_file.kind = "csv" /\ data_file.extra
    /\ Len(report) = 6
    /\ ReportTotal = Grain
    /\ \E i \in DOMAIN report :
          report[i].name = "AspectRatio" /\ report[i].importance = 0

\* C7: every one of the 1000 rows of the synthetic set has an
\* ImportanceScore in [0, 1].
C7_ScoresInUnitInterval ==
    (Substituted /\ y # NoFrame) =>
        /\ y.n = n_samples
        /\ DOMAIN y.data[target_column] = 1..n_samples
        /\ \A i \in 1..n_samples :
              /\ y.data[target_column][i] >= 0
              /\ y.data[target_column][i] <= 1000000

C7_Witness ==
    /\ Substituted
    /\ y.n = n_samples
    /\ \E i \in 1..n_samples : y.data[target_column][i] = 0
    /\ \E i \in 1..n_samples : y.data[target_column][i] = 1000000
    /\ \E i \in 1..n_samples :
          y.data[target_column][i] > 0 /\ y.data[target_column][i] < 1000000

\* The states the generator can be in before the loader is called.
PriorStates == {[key |-> s, pos |-> p] : s \in EntropySeeds \cup {seed}, p \in {0, 1, n_samples}}

\* C8: the feature and target arrays the loader returns without an input
\* file are those any other invocation returns, whatever state the
\* generator was in before: it is reseeded before the first draw and the
\* eight draws of 1000 values follow in a fixed order.
C8_SyntheticDeterministic ==
    (pc = "split" /\ Substituted) =>
        /\ np_random = Advance(SeededState(seed), 8 * n_samples)
        /\ \A prior \in PriorStates :
              LET again == load_training_data(data_file, prior)
              IN again.X = X /\ again.y = y

C8_Witness ==
    /\ pc = "split"
    /\ Substituted
    /\ X.n = n_samples
    /\ np_random.key = seed
    /\ ~IsConstant(X.data["Contrast"])

\* C9: the stages run in the order load, split, fit, evaluate, print, save,
\* each at most once; a stage is entered only when the one before it has
\* returned; a run that reaches "Training complete!" has entered each
\* exactly once.
C9_StagesInOrder ==
    /\ IsPrefix(started, StageOrder)
    /\ pc \in Range(StageOrder) => pc = StageOrder[Len(started) + 1]
    /\ pc = "finish" => started = StageOrder
    /\ Printed("complete") => started = StageOrder

C9_Witness ==
    /\ Completed
    /\ started = StageOrder

\* C10: until the save stage is entered the output path is as it was when
\* the process started: no component of it is created and an artifact
\* already there keeps its content, also in a run that fails during load,
\* split or fit.
C10_OutputUntouchedBeforeSave ==
    ~Entered("save") => (tree = tree0 /\ artifact = artifact0)

C10_Witness ==
    /\ Exited
    /\ exit_code = 1
    /\ started = <<"load", "split">>
    /\ artifact0 = "stale"
    /\ artifact = "stale"

====
